---- MODULE Spec2Model ----
(***************************************************************************)
(* Model of scripts/check-sources.js: the GET-only health check of the     *)
(* video sources listed in config.json.                                    *)
(*                                                                         *)
(* Text (URLs, response bodies) is a sequence of tokens: one token is one  *)
(* character (" ", "<", "?", "{", ...), or one lexeme of JSON (a number,   *)
(* null, a quoted string), or a run of ordinary characters ("h" for an     *)
(* absolute http URL prefix, "x" for plain text).                          *)
(***************************************************************************)
EXTENDS Integers, Sequences, FiniteSets, TLC

\* ------------------------------------------------------------------ bounds
MaxN == 9
MaxInversions == 2
MaxGarbageLen == 2
MaxBaseLen == 4

\* --------------------------------------------------------------- constants
TIMEOUT_MS == 10000

\* CONCURRENCY of a pool one worker larger
ConcurrencyNine == 8 + 1
CONCURRENCY == 8
TEST_QUERY_STRING == "ac=videolist&wd=test&pg=1"

VARIABLES
    cfgFile,      \* config.json on disk: "absent", "invalid", "null", "noapi", "sites"
    apiSite,      \* the api_site mapping of config.json, in Object.entries order
    net,          \* what the network does for each endpoint key
    pc,           \* main(): "init", "spawn", "await", "done", "exit"
    exitCode,     \* -1 while the process runs, then its exit status
    entries,      \* main's entries
    queue,        \* main's queue
    results,      \* main's results
    tested,       \* main's tested
    nextWorker,   \* id of the next worker Array.from will call
    wpc,          \* per worker: "idle", "fetch", "returned", "threw"
    wcur,         \* per worker: the entry it holds while its probe is in flight
    requests,     \* the GET requests issued so far (key, url), oldest first
    inversions,   \* how many earlier-issued probes completed probes have overtaken
    stdout,       \* console.log lines
    stderr,       \* console.error lines
    summary,      \* the SUMMARY block printed by main
    reportFile,   \* source-check-report.json on disk
    reportWrites, \* number of writeFileSync calls of this run
    body,         \* classifier harness: the text handed to judgeResponseShape
    shape,        \* classifier harness: what judgeResponseShape returned
    base,         \* URL harness: the base handed to buildTestUrl
    builtUrl      \* URL harness: what buildTestUrl returned (<<>> before the call)

vars == <<cfgFile, apiSite, net, pc, exitCode, entries, queue, results, tested,
          nextWorker, wpc, wcur, requests, inversions, stdout, stderr, summary,
          reportFile, reportWrites, body, shape, base, builtUrl>>

runVars == <<cfgFile, apiSite, net, pc, exitCode, entries, queue, results, tested,
             nextWorker, wpc, wcur, requests, inversions, stdout, stderr, summary,
             reportFile, reportWrites>>

\* -------------------------------------------------------------------- text
Range(s) == {s[i] : i \in 1..Len(s)}

RECURSIVE TrimStart(_)
TrimStart(s) == IF Len(s) > 0 /\ s[1] = " " THEN TrimStart(Tail(s)) ELSE s

RECURSIVE TrimEnd(_)
TrimEnd(s) ==
    IF Len(s) > 0 /\ s[Len(s)] = " " THEN TrimEnd(SubSeq(s, 1, Len(s) - 1)) ELSE s

\* String.prototype.trim
Trim(s) == TrimEnd(TrimStart(s))

\* String.prototype.startsWith, for a one-character prefix
StartsWith(s, c) == Len(s) > 0 /\ s[1] = c

\* ------------------------------------------------------------ buildTestUrl
\* buildTestUrl choosing the separator on the trimmed base but appending to
\* the base as given
buildTestUrlNoTrim(b) ==
    LET url == Trim(b)
        sep == IF "?" \in Range(url) THEN "&" ELSE "?"
    IN  b \o <<sep, TEST_QUERY_STRING>>

buildTestUrl(b) ==
    LET url == Trim(b)
        sep == IF "?" \in Range(url) THEN "&" ELSE "?"
    IN  url \o <<sep, TEST_QUERY_STRING>>

\* -------------------------------------------------------------- JSON.parse
PropNames == {"list", "data", "code", "total", "foo"}
StrTok == {"\"list\"", "\"data\"", "\"code\"", "\"total\"", "\"foo\"", "\"\""}
NumTok == {"0", "1"}

\* the property a quoted key names ("" names none of the properties read)
PropOf(tok) ==
    CASE tok = "\"list\"" -> "list"
      [] tok = "\"data\"" -> "data"
      [] tok = "\"code\"" -> "code"
      [] tok = "\"total\"" -> "total"
      [] tok = "\"foo\"" -> "foo"
      [] OTHER -> "none"

NoProps == [k \in PropNames |-> "undefined"]

\* a parsed value: its type, its truthiness, and the type of each property
\* (reading a property of a primitive or of an array gives undefined)
JsonVal(t, truthy, props) == [t |-> t, truthy |-> truthy, props |-> props]
JsonNull == JsonVal("null", FALSE, NoProps)

ParseFail == [ok |-> FALSE, next |-> 0, val |-> JsonNull]
ParseOk(val, next) == [ok |-> TRUE, next |-> next, val |-> val]

RECURSIVE SkipWs(_, _)
SkipWs(s, i) == IF i <= Len(s) /\ s[i] = " " THEN SkipWs(s, i + 1) ELSE i

RECURSIVE ParseValue(_, _), ParseElements(_, _), ParseMembers(_, _, _)

\* value ::= number | null | string | "[" elements "]" | "{" members "}"
ParseValue(s, i) ==
    LET j == SkipWs(s, i) IN
    IF j > Len(s) THEN ParseFail
    ELSE IF s[j] \in NumTok THEN ParseOk(JsonVal("number", s[j] # "0", NoProps), j + 1)
    ELSE IF s[j] = "null" THEN ParseOk(JsonNull, j + 1)
    ELSE IF s[j] \in StrTok THEN ParseOk(JsonVal("string", s[j] # "\"\"", NoProps), j + 1)
    ELSE IF s[j] = "["
        THEN LET k == SkipWs(s, j + 1) IN
             IF k <= Len(s) /\ s[k] = "]"
                 THEN ParseOk(JsonVal("array", TRUE, NoProps), k + 1)
                 ELSE ParseElements(s, k)
    ELSE IF s[j] = "{"
        THEN LET k == SkipWs(s, j + 1) IN
             IF k <= Len(s) /\ s[k] = "}"
                 THEN ParseOk(JsonVal("object", TRUE, NoProps), k + 1)
                 ELSE ParseMembers(s, k, NoProps)
    ELSE ParseFail

\* elements ::= value ("," value)* "]"
ParseElements(s, i) ==
    LET v == ParseValue(s, i) IN
    IF ~v.ok THEN ParseFail
    ELSE LET k == SkipWs(s, v.next) IN
         IF k > Len(s) THEN ParseFail
         ELSE IF s[k] = "," THEN ParseElements(s, k + 1)
         ELSE IF s[k] = "]" THEN ParseOk(JsonVal("array", TRUE, NoProps), k + 1)
         ELSE ParseFail

\* members ::= string ":" value ("," string ":" value)* "}"; a repeated key
\* keeps its last value
ParseMembers(s, i, props) ==
    LET j == SkipWs(s, i) IN
    IF j > Len(s) \/ s[j] \notin StrTok THEN ParseFail
    ELSE LET c == SkipWs(s, j + 1) IN
         IF c > Len(s) \/ s[c] # ":" THEN ParseFail
         ELSE LET v == ParseValue(s, c + 1) IN
              IF ~v.ok THEN ParseFail
              ELSE LET k == SkipWs(s, v.next)
                       p == IF PropOf(s[j]) \in PropNames
                                THEN [props EXCEPT ![PropOf(s[j])] = v.val.t]
                                ELSE props
                   IN  IF k > Len(s) THEN ParseFail
                       ELSE IF s[k] = "," THEN ParseMembers(s, k + 1, p)
                       ELSE IF s[k] = "}" THEN ParseOk(JsonVal("object", TRUE, p), k + 1)
                       ELSE ParseFail

\* JSON.parse(text): [ok |-> FALSE] stands for the SyntaxError it throws
JSONparse(text) ==
    LET v == ParseValue(text, 1) IN
    IF v.ok /\ SkipWs(text, v.next) > Len(text) THEN v ELSE ParseFail

\* ------------------------------------------------------ judgeResponseShape
IsArrayProp(json, name) == json.props[name] = "array"

\* judgeResponseShape testing data[] before list[]
judgeResponseShapeDataFirst(text) ==
    LET p == JSONparse(text)
        json == p.val
    IN  IF p.ok
        THEN IF json.truthy /\ IsArrayProp(json, "data")
                 THEN [verdict |-> "ok_maybe", detail |-> "JSON with data[]"]
             ELSE IF json.truthy /\ IsArrayProp(json, "list")
                 THEN [verdict |-> "ok", detail |-> "JSON with list[]"]
             ELSE IF json.truthy /\ (json.props["code"] # "undefined"
                                     \/ json.props["total"] # "undefined")
                 THEN [verdict |-> "ok_maybe", detail |-> "JSON with code/total"]
             ELSE [verdict |-> "unknown", detail |-> "JSON but unknown shape"]
        ELSE IF StartsWith(Trim(text), "<")
                 THEN [verdict |-> "xml_or_html", detail |-> "Non-JSON response (XML/HTML)"]
             ELSE IF Len(text) > 0
                 THEN [verdict |-> "text", detail |-> "Plain text response"]
             ELSE [verdict |-> "empty", detail |-> "Empty body"]

\* judgeResponseShape testing the length of the trimmed text
judgeResponseShapeTrimmedLength(text) ==
    LET p == JSONparse(text)
        json == p.val
    IN  IF p.ok
        THEN IF json.truthy /\ IsArrayProp(json, "list")
                 THEN [verdict |-> "ok", detail |-> "JSON with list[]"]
             ELSE IF json.truthy /\ IsArrayProp(json, "data")
                 THEN [verdict |-> "ok_maybe", detail |-> "JSON with data[]"]
             ELSE IF json.truthy /\ (json.props["code"] # "undefined"
                                     \/ json.props["total"] # "undefined")
                 THEN [verdict |-> "ok_maybe", detail |-> "JSON with code/total"]
             ELSE [verdict |-> "unknown", detail |-> "JSON but unknown shape"]
        ELSE IF StartsWith(Trim(text), "<")
                 THEN [verdict |-> "xml_or_html", detail |-> "Non-JSON response (XML/HTML)"]
             ELSE IF Len(Trim(text)) > 0
                 THEN [verdict |-> "text", detail |-> "Plain text response"]
             ELSE [verdict |-> "empty", detail |-> "Empty body"]

judgeResponseShape(text) ==
    LET p == JSONparse(text)
        json == p.val
    IN  IF p.ok
        THEN IF json.truthy /\ IsArrayProp(json, "list")
                 THEN [verdict |-> "ok", detail |-> "JSON with list[]"]
             ELSE IF json.truthy /\ IsArrayProp(json, "data")
                 THEN [verdict |-> "ok_maybe", detail |-> "JSON with data[]"]
             ELSE IF json.truthy /\ (json.props["code"] # "undefined"
                                     \/ json.props["total"] # "undefined")
                 THEN [verdict |-> "ok_maybe", detail |-> "JSON with code/total"]
             ELSE [verdict |-> "unknown", detail |-> "JSON but unknown shape"]
        ELSE IF StartsWith(Trim(text), "<")
                 THEN [verdict |-> "xml_or_html", detail |-> "Non-JSON response (XML/HTML)"]
             ELSE IF Len(text) > 0
                 THEN [verdict |-> "text", detail |-> "Plain text response"]
             ELSE [verdict |-> "empty", detail |-> "Empty body"]

\* -------------------------------------------------------- fetchWithTimeout
\* fetch rejects a URL it cannot parse; "h" stands for an absolute http(s) prefix
ValidUrl(url) == Len(url) > 0 /\ url[1] = "h"

\* What the network does with one GET: kind "refused" (connection or DNS
\* error), "silent" (nothing ever arrives), "bodyfail" (headers arrive, reading
\* the body fails) or "response" (status and text arrive after lat ms).
NetBehaviour(kind, status, text, lat) ==
    [kind |-> kind, status |-> status, text |-> text, lat |-> lat]

FetchError(message) == [ok |-> FALSE, status |-> 0, error |-> message, text |-> <<>>]

\* Aborted of a timer that is never armed: only a dead connection ends the wait
AbortedNoTimer(nb, ms) == nb.kind = "silent"

\* the timer of ms aborts the request unless the body was read before it fires
Aborted(nb, ms) == nb.kind = "silent" \/ nb.lat >= ms

\* fetchWithTimeout reporting the status of the response whose body it could
\* not read
fetchWithTimeoutKeepsStatus(url, ms, nb) ==
    IF ~ValidUrl(url) THEN FetchError("Failed to parse URL")
    ELSE IF nb.kind = "refused" THEN FetchError("fetch failed")
    ELSE IF Aborted(nb, ms) THEN FetchError("This operation was aborted")
    ELSE IF nb.kind = "bodyfail"
        THEN [ok |-> FALSE, status |-> nb.status, error |-> "terminated", text |-> <<>>]
    ELSE [ok |-> nb.status \in 200..299, status |-> nb.status, error |-> "",
          text |-> nb.text]

\* error "" and text <<>> stand for a field the returned object does not have
fetchWithTimeout(url, ms, nb) ==
    IF ~ValidUrl(url) THEN FetchError("Failed to parse URL")
    ELSE IF nb.kind = "refused" THEN FetchError("fetch failed")
    ELSE IF Aborted(nb, ms) THEN FetchError("This operation was aborted")
    ELSE IF nb.kind = "bodyfail" THEN FetchError("terminated")
    ELSE [ok |-> nb.status \in 200..299, status |-> nb.status, error |-> "",
          text |-> nb.text]

\* Date.now() - startedAt around the awaited fetchWithTimeout
Elapsed(url, ms, nb) ==
    IF ~ValidUrl(url) THEN 0 ELSE IF Aborted(nb, ms) THEN ms ELSE nb.lat

\* ----------------------------------------------------------------- config
\* a site descriptor; api <<>> and name "" stand for a missing or empty field
Site(api, name) == [null |-> FALSE, api |-> api, name |-> name]
SiteNull == [null |-> TRUE, api |-> <<>>, name |-> ""]
Entry(key, site) == [key |-> key, site |-> site]
NoEntry == Entry("", Site(<<>>, ""))

BodyList == <<"{", "\"code\"", ":", "1", ",", "\"list\"", ":", "[", "1", "]", "}">>
BodyData == <<"{", "\"data\"", ":", "[", "]", "}">>
BodyCode == <<"{", "\"code\"", ":", "0", "}">>
BodyFoo == <<"{", "\"foo\"", ":", "1", "}">>
BodyHtml == <<"<", "x">>
BodyText == <<"x">>
BodyEmpty == <<>>

Kind(site, nb) == [site |-> site, nb |-> nb]

\* the kinds of endpoint a config.json and the network can hold
Catalogue == <<
    Kind(Site(<<"h">>, "A"), NetBehaviour("response", 200, BodyList, 120)),
    Kind(Site(<<"h">>, "B"), NetBehaviour("silent", 0, <<>>, 0)),
    Kind(Site(<<" ", "h", "?", " ">>, ""), NetBehaviour("response", 404, BodyHtml, 80)),
    Kind(Site(<<"h">>, "D"), NetBehaviour("response", 200, BodyData, 300)),
    Kind(Site(<<"h">>, "E"), NetBehaviour("refused", 0, <<>>, 0)),
    Kind(Site(<<"h">>, ""), NetBehaviour("response", 200, BodyHtml, 50)),
    Kind(Site(<<"h">>, "G"), NetBehaviour("response", 200, BodyFoo, 70)),
    Kind(Site(<<>>, ""), NetBehaviour("response", 200, BodyList, 60)),
    Kind(Site(<<"h">>, "I"), NetBehaviour("response", 200, BodyText, 90)),
    Kind(Site(<<"h">>, "J"), NetBehaviour("bodyfail", 200, <<>>, 40)),
    Kind(Site(<<"h">>, "K"), NetBehaviour("response", 200, BodyEmpty, 30)),
    Kind(Site(<<"h">>, "L"), NetBehaviour("response", 200, BodyList, TIMEOUT_MS + 1)),
    Kind(Site(<<"h">>, "M"), NetBehaviour("response", 500, BodyList, 20)),
    Kind(Site(<<"h">>, "N"), NetBehaviour("response", 200, BodyCode, 10)),
    Kind(SiteNull, NetBehaviour("refused", 0, <<>>, 0)) >>

KeyOf(i) == "k" \o ToString(i)

\* a configuration of n endpoints: n copies of kind o of the catalogue, or the
\* n kinds that follow kind o in it (cyclically)
KindAt(mode, o, i) ==
    IF mode = "uniform" THEN Catalogue[o]
    ELSE Catalogue[((o + i - 2) % Len(Catalogue)) + 1]

ConfigSites(mode, o, n) == [i \in 1..n |-> Entry(KeyOf(i), KindAt(mode, o, i).site)]
ConfigNet(mode, o, n) == [i \in 1..n |-> KindAt(mode, o, i).nb]

\* ------------------------------------------------------------------ state
Workers == 1..CONCURRENCY

NoReport == [exists |-> FALSE, when |-> "", results |-> <<>>]
OldReport == [exists |-> TRUE, when |-> "earlier run", results |-> <<>>]
NoSummary == [printed |-> FALSE, pass |-> 0, maybe |-> 0, xml |-> 0, unknown |-> 0,
              fail |-> 0]
NotJudged == [verdict |-> "", detail |-> ""]

Line(text, idx, key, verdict) ==
    [text |-> text, idx |-> idx, key |-> key, verdict |-> verdict]

RunIdle ==
    /\ pc = "init"
    /\ exitCode = -1
    /\ entries = <<>>
    /\ queue = <<>>
    /\ results = <<>>
    /\ tested = 0
    /\ nextWorker = 1
    /\ wpc = [w \in Workers |-> "idle"]
    /\ wcur = [w \in Workers |-> NoEntry]
    /\ requests = <<>>
    /\ inversions = 0
    /\ stdout = <<>>
    /\ stderr = <<>>
    /\ summary = NoSummary
    /\ reportWrites = 0

Init ==
    /\ cfgFile \in {"absent", "invalid", "null", "noapi", "sites"}
    /\ \E mode \in {"uniform", "window"}, o \in 1..Len(Catalogue), n \in 0..MaxN :
          /\ apiSite = IF cfgFile = "sites" THEN ConfigSites(mode, o, n) ELSE <<>>
          /\ net = IF cfgFile = "sites" THEN ConfigNet(mode, o, n) ELSE <<>>
    /\ reportFile \in {NoReport, OldReport}
    /\ RunIdle
    /\ body = <<>>
    /\ shape = NotJudged
    /\ base = <<>>
    /\ builtUrl = <<>>

\* ----------------------------------------------------------------- main
\* cfg && cfg.api_site ? cfg.api_site : {}, then Object.entries; the file
\* contents "null" and "{}" parse and have no api_site
ConfiguredEntries == IF cfgFile = "sites" THEN apiSite ELSE <<>>

\* config.json does not exist: console.error, process.exit(1)
MainNoConfig ==
    /\ pc = "init"
    /\ cfgFile = "absent"
    /\ stderr' = Append(stderr, "config.json not found at")
    /\ exitCode' = 1
    /\ pc' = "exit"
    /\ UNCHANGED <<cfgFile, apiSite, net, entries, queue, results, tested, nextWorker,
                   wpc, wcur, requests, inversions, stdout, summary, reportFile,
                   reportWrites, body, shape, base, builtUrl>>

\* MainBadConfig without its process.exit(1): cfg stays undefined, main goes on
\* to find no entries and returns
MainBadConfigFallsThrough ==
    /\ pc = "init"
    /\ cfgFile = "invalid"
    /\ stderr' = Append(stderr, "Failed to parse config.json:")
    /\ stdout' = Append(stdout, Line("No api_site entries found.", 0, "", ""))
    /\ exitCode' = 0
    /\ pc' = "done"
    /\ UNCHANGED <<cfgFile, apiSite, net, entries, queue, results, tested, nextWorker,
                   wpc, wcur, requests, inversions, summary, reportFile,
                   reportWrites, body, shape, base, builtUrl>>

\* JSON.parse(raw) throws: console.error, process.exit(1)
MainBadConfig ==
    /\ pc = "init"
    /\ cfgFile = "invalid"
    /\ stderr' = Append(stderr, "Failed to parse config.json:")
    /\ exitCode' = 1
    /\ pc' = "exit"
    /\ UNCHANGED <<cfgFile, apiSite, net, entries, queue, results, tested, nextWorker,
                   wpc, wcur, requests, inversions, stdout, summary, reportFile,
                   reportWrites, body, shape, base, builtUrl>>

\* MainNoEntries writing a report with no results before it returns
MainNoEntriesWritesReport ==
    /\ pc = "init"
    /\ cfgFile \notin {"absent", "invalid"}
    /\ Len(ConfiguredEntries) = 0
    /\ entries' = ConfiguredEntries
    /\ stdout' = Append(stdout, Line("No api_site entries found.", 0, "", ""))
    /\ reportFile' = [exists |-> TRUE, when |-> "this run", results |-> <<>>]
    /\ reportWrites' = reportWrites + 1
    /\ exitCode' = 0
    /\ pc' = "done"
    /\ UNCHANGED <<cfgFile, apiSite, net, queue, results, tested, nextWorker, wpc, wcur,
                   requests, inversions, stderr, summary, body, shape, base, builtUrl>>

\* entries.length === 0: log and return; the process then ends with status 0
MainNoEntries ==
    /\ pc = "init"
    /\ cfgFile \notin {"absent", "invalid"}
    /\ Len(ConfiguredEntries) = 0
    /\ entries' = ConfiguredEntries
    /\ stdout' = Append(stdout, Line("No api_site entries found.", 0, "", ""))
    /\ exitCode' = 0
    /\ pc' = "done"
    /\ UNCHANGED <<cfgFile, apiSite, net, queue, results, tested, nextWorker, wpc, wcur,
                   requests, inversions, stderr, summary, reportFile, reportWrites,
                   body, shape, base, builtUrl>>

\* main up to the creation of the workers
MainStart ==
    /\ pc = "init"
    /\ cfgFile \notin {"absent", "invalid"}
    /\ Len(ConfiguredEntries) # 0
    /\ entries' = ConfiguredEntries
    /\ stdout' = Append(stdout, Line("Testing sources", Len(ConfiguredEntries), "", ""))
    /\ results' = <<>>
    /\ tested' = 0
    /\ queue' = ConfiguredEntries
    /\ nextWorker' = 1
    /\ pc' = "spawn"
    /\ UNCHANGED <<cfgFile, apiSite, net, exitCode, wpc, wcur, requests, inversions,
                   stderr, summary, reportFile, reportWrites, body, shape, base, builtUrl>>

\* --------------------------------------------------------------- worker
baseOf(site) == IF ~site.null /\ site.api # <<>> THEN site.api ELSE <<>>

NetOf(key) == net[CHOOSE i \in 1..Len(apiSite) : apiSite[i].key = key]

\* WorkerLoop with `if` for `while`: a worker handles one entry and returns
WorkerLoopOnce(w) ==
    IF Len(queue) > 0 /\ wpc[w] = "idle"
    THEN /\ queue' = Tail(queue)
         /\ wcur' = [wcur EXCEPT ![w] = Head(queue)]
         /\ wpc' = [wpc EXCEPT ![w] = "fetch"]
         /\ requests' = Append(requests,
                [key |-> Head(queue).key, method |-> "GET",
                 url |-> buildTestUrl(baseOf(Head(queue).site))])
    ELSE /\ queue' = queue
         /\ wcur' = [wcur EXCEPT ![w] = NoEntry]
         /\ wpc' = [wpc EXCEPT ![w] = "returned"]
         /\ requests' = requests

\* WorkerLoop reading queue[0] where the code shifts it off the queue
WorkerLoopPeek(w) ==
    IF Len(queue) > 0
    THEN /\ queue' = queue
         /\ wcur' = [wcur EXCEPT ![w] = Head(queue)]
         /\ wpc' = [wpc EXCEPT ![w] = "fetch"]
         /\ requests' = Append(requests,
                [key |-> Head(queue).key, method |-> "GET",
                 url |-> buildTestUrl(baseOf(Head(queue).site))])
    ELSE /\ queue' = queue
         /\ wcur' = [wcur EXCEPT ![w] = NoEntry]
         /\ wpc' = [wpc EXCEPT ![w] = "returned"]
         /\ requests' = requests

\* WorkerLoop of a worker that gives up after a failed probe
WorkerLoopStopOnFail(w) ==
    IF Len(queue) > 0
       /\ (wpc[w] = "idle" \/ results'[Len(results')].verdict # "fail")
    THEN /\ queue' = Tail(queue)
         /\ wcur' = [wcur EXCEPT ![w] = Head(queue)]
         /\ wpc' = [wpc EXCEPT ![w] = "fetch"]
         /\ requests' = Append(requests,
                [key |-> Head(queue).key, method |-> "GET",
                 url |-> buildTestUrl(baseOf(Head(queue).site))])
    ELSE /\ queue' = queue
         /\ wcur' = [wcur EXCEPT ![w] = NoEntry]
         /\ wpc' = [wpc EXCEPT ![w] = "returned"]
         /\ requests' = requests

\* WorkerLoop taking entries with queue.pop(), from the end of the queue
WorkerLoopPop(w) ==
    IF Len(queue) > 0
    THEN /\ queue' = SubSeq(queue, 1, Len(queue) - 1)
         /\ wcur' = [wcur EXCEPT ![w] = queue[Len(queue)]]
         /\ wpc' = [wpc EXCEPT ![w] = "fetch"]
         /\ requests' = Append(requests,
                [key |-> queue[Len(queue)].key, method |-> "GET",
                 url |-> buildTestUrl(baseOf(queue[Len(queue)].site))])
    ELSE /\ queue' = queue
         /\ wcur' = [wcur EXCEPT ![w] = NoEntry]
         /\ wpc' = [wpc EXCEPT ![w] = "returned"]
         /\ requests' = requests

\* the head of worker's while loop: take the next entry and issue its probe,
\* or return when the queue is empty
WorkerLoop(w) ==
    IF Len(queue) > 0
    THEN /\ queue' = Tail(queue)
         /\ wcur' = [wcur EXCEPT ![w] = Head(queue)]
         /\ wpc' = [wpc EXCEPT ![w] = "fetch"]
         /\ requests' = Append(requests,
                [key |-> Head(queue).key, method |-> "GET",
                 url |-> buildTestUrl(baseOf(Head(queue).site))])
    ELSE /\ queue' = queue
         /\ wcur' = [wcur EXCEPT ![w] = NoEntry]
         /\ wpc' = [wpc EXCEPT ![w] = "returned"]
         /\ requests' = requests

\* Array.from calls worker(1) .. worker(CONCURRENCY); each runs to its first
\* await before the next is called, then main awaits Promise.all
WorkerStart ==
    /\ pc = "spawn"
    /\ wpc[nextWorker] = "idle"
    /\ WorkerLoop(nextWorker)
    /\ nextWorker' = nextWorker + 1
    /\ pc' = IF nextWorker = CONCURRENCY THEN "await" ELSE "spawn"
    /\ UNCHANGED <<cfgFile, apiSite, net, exitCode, entries, results, tested,
                   inversions, stdout, stderr, summary, reportFile, reportWrites,
                   body, shape, base, builtUrl>>

\* Verdict judging the body of any response, whatever its status
VerdictIgnoringOk(r) ==
    IF r.ok \/ r.status # 0
    THEN LET judge == judgeResponseShape(r.text) IN
         [verdict |-> IF judge.verdict = "ok" THEN "pass" ELSE judge.verdict,
          detail |-> judge.detail]
    ELSE [verdict |-> "fail",
          detail |-> IF r.error # "" THEN r.error ELSE "HTTP " \o ToString(r.status)]

\* the final verdict and detail of a probe outcome r
Verdict(r) ==
    IF r.ok
    THEN LET judge == judgeResponseShape(r.text) IN
         [verdict |-> IF judge.verdict = "ok" THEN "pass" ELSE judge.verdict,
          detail |-> judge.detail]
    ELSE [verdict |-> "fail",
          detail |-> IF r.error # "" THEN r.error ELSE "HTTP " \o ToString(r.status)]

\* the object pushed on results
ProbeResult(entry, r, ms) ==
    LET v == Verdict(r) IN
    [key |-> entry.key,
     name |-> IF entry.site.name # "" THEN entry.site.name ELSE entry.key,
     base |-> baseOf(entry.site),
     testUrl |-> buildTestUrl(baseOf(entry.site)),
     verdict |-> v.verdict,
     status |-> r.status,
     ms |-> ms,
     detail |-> v.detail]

IssueNo(key) == CHOOSE i \in 1..Len(requests) : requests[i].key = key

\* the probes still in flight that were issued before worker w's
Overtaken(w) ==
    {v \in Workers : wpc[v] = "fetch" /\ IssueNo(wcur[v].key) < IssueNo(wcur[w].key)}

\* results.unshift where the code pushes
PushResultFront(rs, res) == <<res>> \o rs

\* results.push
PushResult(rs, res) == Append(rs, res)

\* the progress line printed with tested read before its increment
ProgressLineStale(n, key, verdict) == Line("progress", n - 1, key, verdict)

\* the progress line; n is tested after tested += 1
ProgressLine(n, key, verdict) == Line("progress", n, key, verdict)

\* the outcome of worker w's probe comes back: the rest of the loop body, then
\* the loop head again. Reading site.name of a null site throws out of worker.
WorkerResume(w) ==
    /\ pc = "await"
    /\ wpc[w] = "fetch"
    /\ \A v \in Workers : wpc[v] # "threw"
    /\ inversions + Cardinality(Overtaken(w)) <= MaxInversions
    /\ inversions' = inversions + Cardinality(Overtaken(w))
    /\ LET entry == wcur[w]
           testUrl == buildTestUrl(baseOf(entry.site))
           r == fetchWithTimeout(testUrl, TIMEOUT_MS, NetOf(entry.key))
           ms == Elapsed(testUrl, TIMEOUT_MS, NetOf(entry.key))
           res == ProbeResult(entry, r, ms)
       IN  IF entry.site.null
           THEN /\ wpc' = [wpc EXCEPT ![w] = "threw"]
                /\ UNCHANGED <<queue, wcur, requests, results, tested, stdout>>
           ELSE /\ results' = PushResult(results, res)
                /\ tested' = tested + 1
                /\ stdout' = Append(stdout,
                                    ProgressLine(tested + 1, entry.key, res.verdict))
                /\ WorkerLoop(w)
    /\ UNCHANGED <<cfgFile, apiSite, net, pc, exitCode, entries, nextWorker, stderr,
                   summary, reportFile, reportWrites, body, shape, base, builtUrl>>

\* ------------------------------------------------------- after Promise.all
CountVerdicts(rs, vs) == Cardinality({i \in 1..Len(rs) : rs[i].verdict \in vs})

\* Summarize whose UNKNOWN/TEXT filter forgets `text`
SummarizeNoText(rs) ==
    [printed |-> TRUE,
     pass |-> CountVerdicts(rs, {"pass"}),
     maybe |-> CountVerdicts(rs, {"ok_maybe"}),
     xml |-> CountVerdicts(rs, {"xml_or_html"}),
     unknown |-> CountVerdicts(rs, {"unknown"}),
     fail |-> CountVerdicts(rs, {"fail", "empty"})]

Summarize(rs) ==
    [printed |-> TRUE,
     pass |-> CountVerdicts(rs, {"pass"}),
     maybe |-> CountVerdicts(rs, {"ok_maybe"}),
     xml |-> CountVerdicts(rs, {"xml_or_html"}),
     unknown |-> CountVerdicts(rs, {"unknown", "text"}),
     fail |-> CountVerdicts(rs, {"fail", "empty"})]

\* MainFinish after Promise.race: it goes on as soon as one worker returned
MainFinishOnAny ==
    /\ pc = "await"
    /\ \E w \in Workers : wpc[w] = "returned"
    /\ summary' = Summarize(results)
    /\ reportFile' = [exists |-> TRUE, when |-> "this run", results |-> results]
    /\ reportWrites' = reportWrites + 1
    /\ stdout' = Append(stdout, Line("Report saved to", 0, "", ""))
    /\ exitCode' = 0
    /\ pc' = "done"
    /\ UNCHANGED <<cfgFile, apiSite, net, entries, queue, results, tested, nextWorker,
                   wpc, wcur, requests, inversions, stderr, body, shape, base, builtUrl>>

\* every worker returned: the summary, the report file, the normal end
MainFinish ==
    /\ pc = "await"
    /\ \A w \in Workers : wpc[w] = "returned"
    /\ summary' = Summarize(results)
    /\ reportFile' = [exists |-> TRUE, when |-> "this run", results |-> results]
    /\ reportWrites' = reportWrites + 1
    /\ stdout' = Append(stdout, Line("Report saved to", 0, "", ""))
    /\ exitCode' = 0
    /\ pc' = "done"
    /\ UNCHANGED <<cfgFile, apiSite, net, entries, queue, results, tested, nextWorker,
                   wpc, wcur, requests, inversions, stderr, body, shape, base, builtUrl>>

\* MainCatch of a handler that logs and does not call process.exit(1)
MainCatchNoExit ==
    /\ pc = "await"
    /\ \E w \in Workers : wpc[w] = "threw"
    /\ stderr' = Append(stderr, "Unexpected error:")
    /\ exitCode' = 0
    /\ pc' = "exit"
    /\ UNCHANGED <<cfgFile, apiSite, net, entries, queue, results, tested, nextWorker,
                   wpc, wcur, requests, inversions, stdout, summary, reportFile,
                   reportWrites, body, shape, base, builtUrl>>

\* a worker threw: Promise.all rejects, main rejects, the catch handler exits
MainCatch ==
    /\ pc = "await"
    /\ \E w \in Workers : wpc[w] = "threw"
    /\ stderr' = Append(stderr, "Unexpected error:")
    /\ exitCode' = 1
    /\ pc' = "exit"
    /\ UNCHANGED <<cfgFile, apiSite, net, entries, queue, results, tested, nextWorker,
                   wpc, wcur, requests, inversions, stdout, summary, reportFile,
                   reportWrites, body, shape, base, builtUrl>>

Next ==
    \/ MainNoConfig
    \/ MainBadConfig
    \/ MainNoEntries
    \/ MainStart
    \/ WorkerStart
    \/ \E w \in Workers : WorkerResume(w)
    \/ MainFinish
    \/ MainCatch

Spec == Init /\ [][Next]_vars

\* ------------------------------------------------- classifier harness
\* Bodies handed to judgeResponseShape: every token sequence of at most
\* MaxGarbageLen tokens, and every object over the properties the classifier
\* reads, each property absent, an array, a number or null, serialized as
\* JSON.stringify does, bare or with text around it.
Alphabet == {" ", "<", "x", "{", "}", "[", "]", ":", ",", "0", "1", "null",
             "\"list\"", "\"\""}

RECURSIVE SeqsUpTo(_)
SeqsUpTo(n) ==
    IF n = 0 THEN {<<>>}
    ELSE SeqsUpTo(n - 1) \cup
         {Append(t, c) : t \in {u \in SeqsUpTo(n - 1) : Len(u) = n - 1}, c \in Alphabet}

KeyOrder == <<"list", "data", "code", "total", "foo">>
KeyTok(name) == "\"" \o name \o "\""

ValueTokens(kind) ==
    CASE kind = "array" -> <<"[", "1", "]">>
      [] kind = "number" -> <<"0">>
      [] kind = "null" -> <<"null">>

RECURSIVE Members(_, _, _)
Members(f, i, first) ==
    IF i > Len(KeyOrder) THEN <<>>
    ELSE IF f[KeyOrder[i]] = "absent" THEN Members(f, i + 1, first)
    ELSE (IF first THEN <<>> ELSE <<",">>)
         \o <<KeyTok(KeyOrder[i]), ":">> \o ValueTokens(f[KeyOrder[i]])
         \o Members(f, i + 1, FALSE)

Stringify(f) == <<"{">> \o Members(f, 1, TRUE) \o <<"}">>

ObjectBodies ==
    {pre \o Stringify(f) \o post :
        f \in [PropNames -> {"absent", "array", "number", "null"}],
        pre \in {<<>>, <<" ">>, <<"<">>},
        post \in {<<>>, <<" ">>, <<"x">>}}

ShapeBodies == SeqsUpTo(MaxGarbageLen) \cup ObjectBodies

InitShape ==
    /\ body \in ShapeBodies
    /\ shape = NotJudged
    /\ base = <<>>
    /\ builtUrl = <<>>
    /\ cfgFile = "absent"
    /\ apiSite = <<>>
    /\ net = <<>>
    /\ reportFile = NoReport
    /\ RunIdle

Judge ==
    /\ shape = NotJudged
    /\ shape' = judgeResponseShape(body)
    /\ UNCHANGED <<body, base, builtUrl, runVars>>

NextShape == Judge

SpecShape == InitShape /\ [][NextShape]_vars

\* --------------------------------------------------------- URL harness
\* Bases handed to buildTestUrl: every sequence of at most MaxBaseLen of
\* the characters " " and "?", "h" (an absolute http prefix) and "x" (other text)
UrlAlphabet == {" ", "?", "h", "x"}

RECURSIVE BasesUpTo(_)
BasesUpTo(n) ==
    IF n = 0 THEN {<<>>}
    ELSE BasesUpTo(n - 1) \cup
         {Append(t, c) : t \in {u \in BasesUpTo(n - 1) : Len(u) = n - 1},
                         c \in UrlAlphabet}

InitUrl ==
    /\ base \in BasesUpTo(MaxBaseLen)
    /\ builtUrl = <<>>
    /\ body = <<>>
    /\ shape = NotJudged
    /\ cfgFile = "absent"
    /\ apiSite = <<>>
    /\ net = <<>>
    /\ reportFile = NoReport
    /\ RunIdle

Build ==
    /\ builtUrl = <<>>
    /\ builtUrl' = buildTestUrl(base)
    /\ UNCHANGED <<base, body, shape, runVars>>

NextUrl == Build

SpecUrl == InitUrl /\ [][NextUrl]_vars

\* ================================================================ claims
NumEndpoints == Len(entries)
AllReturned == pc \in {"await", "done"} /\ \A w \in Workers : wpc[w] = "returned"
Threw == {w \in Workers : wpc[w] = "threw"}
\* probes whose request was issued and whose outcome has not come back
InFlight == Len(requests) - Len(results) - Cardinality(Threw)
ResultsWith(vs) == {j \in 1..Len(results) : results[j].verdict \in vs}
Parsed == cfgFile \notin {"absent", "invalid"}
ReportUntouched == reportWrites = 0 /\ reportFile \in {NoReport, OldReport}

\* C1: once every worker of a run over N >= 1 endpoints has returned, results
\* holds exactly one result per configured key and N results in all.
C1_OneResultPerEndpoint ==
    (NumEndpoints >= 1 /\ AllReturned) =>
        /\ Len(results) = NumEndpoints
        /\ \A i \in 1..NumEndpoints :
              Cardinality({j \in 1..Len(results) : results[j].key = entries[i].key}) = 1

\* a finished run over more endpoints than workers, with passed, timed-out and
\* otherwise failed probes, completed out of issue order
C1_Witness ==
    /\ pc = "done"
    /\ Len(results) > 8
    /\ inversions > 0
    /\ ResultsWith({"pass"}) # {}
    /\ \E j \in ResultsWith({"fail"}) : results[j].detail = "This operation was aborted"
    /\ \E j \in ResultsWith({"fail"}) : results[j].detail = "fetch failed"

\* C2: at most 8 probes are in flight in every reachable state.
C2_InFlightBounded == InFlight <= 8

\* the pool is full again after a probe completed: more endpoints than workers
C2_Witness == InFlight = 8 /\ Len(results) >= 1 /\ NumEndpoints > 8

\* C3: no key is requested twice, only configured keys are requested, and a
\* completed run has issued exactly one request per configured endpoint.
C3_ProbedOnce ==
    /\ \A i, j \in 1..Len(requests) : i # j => requests[i].key # requests[j].key
    /\ \A i \in 1..Len(requests) :
          \E k \in 1..Len(apiSite) : apiSite[k].key = requests[i].key
    /\ (NumEndpoints >= 1 /\ AllReturned) => Len(requests) = NumEndpoints

\* a completed run over more endpoints than workers in which probes failed
C3_Witness ==
    /\ pc = "done"
    /\ Len(requests) > 8
    /\ Cardinality(ResultsWith({"fail"})) >= 2

\* what the network made of the request for a result: no usable 2xx response
OutcomeNotOk(res) ==
    LET nb == NetOf(res.key) IN
    \/ res.testUrl = <<>> \/ res.testUrl[1] # "h"
    \/ nb.kind \in {"refused", "silent", "bodyfail"}
    \/ nb.lat >= 10000
    \/ nb.status < 200 \/ nb.status > 299

\* C4: a result of a probe that was not ok is `fail`, with the error message
\* or `HTTP <status>` as detail; a result of an ok probe is `pass` exactly when
\* the classifier says `ok` and the classifier's verdict otherwise.
C4_VerdictRule ==
    \A j \in 1..Len(results) :
        LET res == results[j]
            nb == NetOf(res.key)
            judge == judgeResponseShape(nb.text)
        IN  /\ res.verdict # "ok"
            /\ OutcomeNotOk(res) =>
                  /\ res.verdict = "fail"
                  /\ res.status = 0 =>
                        res.detail \in {"Failed to parse URL", "fetch failed",
                                        "This operation was aborted", "terminated"}
                  /\ res.status # 0 =>
                        /\ res.status = nb.status
                        /\ res.detail = "HTTP " \o ToString(nb.status)
            /\ ~OutcomeNotOk(res) =>
                  /\ res.verdict = "pass" <=> judge.verdict = "ok"
                  /\ judge.verdict # "ok" => res.verdict = judge.verdict
                  /\ res.verdict \in {"pass", "ok_maybe", "xml_or_html", "unknown",
                                      "text", "empty"}

\* results of a pass, a non-2xx response whose body has list[], a network
\* error, and an ok response the classifier did not recognise
C4_Witness ==
    /\ ResultsWith({"pass"}) # {}
    /\ \E j \in ResultsWith({"fail"}) :
          results[j].detail = "HTTP 500" /\ NetOf(results[j].key).text = BodyList
    /\ \E j \in ResultsWith({"fail"}) : results[j].status = 0
    /\ ResultsWith({"ok_maybe", "xml_or_html", "unknown", "text", "empty"}) # {}

\* the classifier harness has judged its body
Judged == shape # NotJudged
ParsedBody == JSONparse(body)
ListValued(name) == ParsedBody.val.t = "object" /\ ParsedBody.val.props[name] = "array"
HasField(name) == ParsedBody.val.t = "object" /\ ParsedBody.val.props[name] # "undefined"

\* C5: for a body that parses, the verdict is `ok` iff it has a list-valued
\* `list`; else `ok_maybe` iff it has a list-valued `data`, or a `code` or
\* `total` field; else `unknown` (so for null, numbers, strings, arrays).
C5_ShapePriority ==
    (Judged /\ ParsedBody.ok) =>
        /\ shape.verdict = "ok" <=> ListValued("list")
        /\ shape.verdict = "ok_maybe" <=>
              /\ ~ListValued("list")
              /\ ListValued("data") \/ HasField("code") \/ HasField("total")
        /\ shape.verdict = "unknown" <=>
              /\ ~ListValued("list")
              /\ ~ListValued("data")
              /\ ~HasField("code")
              /\ ~HasField("total")
        /\ ListValued("data") /\ ~ListValued("list") =>
              shape.detail = "JSON with data[]"

\* a judged body with a list-valued list next to data[], code and total
C5_Witness ==
    /\ Judged
    /\ ParsedBody.ok
    /\ ListValued("list") /\ ListValued("data") /\ HasField("code") /\ HasField("total")
    /\ shape.verdict = "ok"

\* the first character of the body that is not whitespace is "<"
MarkupAfterWhitespace ==
    \E i \in 1..Len(body) : body[i] = "<" /\ \A j \in 1..(i - 1) : body[j] = " "

\* C6 as stated: an unparsable body is `xml_or_html` iff it starts with "<",
\* else `text` iff it is non-empty, else `empty`.
C6_AsStated ==
    (Judged /\ ~ParsedBody.ok) =>
        /\ shape.verdict = "xml_or_html" <=> StartsWith(body, "<")
        /\ shape.verdict = "text" <=> (~StartsWith(body, "<") /\ Len(body) > 0)
        /\ shape.verdict = "empty" <=> Len(body) = 0

\* C6 amended: an unparsable body is `xml_or_html` iff its first character
\* after leading whitespace is "<", else `text` iff it is non-empty
\* (whitespace-only bodies included), else `empty`.
C6_MarkupAfterTrim ==
    (Judged /\ ~ParsedBody.ok) =>
        /\ shape.verdict \in {"xml_or_html", "text", "empty"}
        /\ shape.verdict = "xml_or_html" <=> MarkupAfterWhitespace
        /\ shape.verdict = "text" <=> (~MarkupAfterWhitespace /\ Len(body) > 0)
        /\ shape.verdict = "empty" <=> Len(body) = 0

\* a judged unparsable body with whitespace before its "<"
C6_Witness ==
    /\ Judged
    /\ ~ParsedBody.ok
    /\ Len(body) >= 2 /\ body[1] = " " /\ body[2] = "<"
    /\ shape.verdict = "xml_or_html"

\* every configured endpoint's request reaches the network and gets no
\* answer within 10000 ms
AllProbesTimeOut ==
    /\ cfgFile = "sites"
    /\ Len(apiSite) >= 1
    /\ \A i \in 1..Len(apiSite) :
          /\ ~apiSite[i].site.null
          /\ StartsWith(TrimStart(apiSite[i].site.api), "h")
          /\ net[i].kind = "silent" \/ (net[i].kind = "response" /\ net[i].lat > 10000)

\* C7: a run in which every probe exceeds its timeout ends with N `fail`
\* results, FAIL/EMPTY = N and the other counts 0, and the report written.
C7_AllTimeoutsFail ==
    (AllProbesTimeOut /\ pc \in {"done", "exit"}) =>
        /\ pc = "done"
        /\ Len(results) = Len(apiSite)
        /\ \A j \in 1..Len(results) : results[j].verdict = "fail"
        /\ summary = [printed |-> TRUE, pass |-> 0, maybe |-> 0, xml |-> 0,
                      unknown |-> 0, fail |-> Len(apiSite)]
        /\ reportWrites = 1
        /\ reportFile = [exists |-> TRUE, when |-> "this run", results |-> results]

\* such a run over more endpoints than workers, of late responses, finished
C7_Witness ==
    /\ AllProbesTimeOut
    /\ pc = "done"
    /\ Len(results) > 8
    /\ net[1].kind = "response"
    /\ summary.fail = Len(apiSite)

NoEndpoints == Parsed /\ (cfgFile = "sites" => Len(apiSite) = 0)

\* C8: a run with zero endpoints issues no request, starts no worker, logs
\* the message, leaves the report file as it was and ends with status 0.
C8_ZeroEndpoints ==
    (NoEndpoints /\ pc # "init") =>
        /\ pc = "done"
        /\ exitCode = 0
        /\ requests = <<>>
        /\ \A w \in Workers : wpc[w] = "idle"
        /\ results = <<>>
        /\ stdout = <<Line("No api_site entries found.", 0, "", "")>>
        /\ stderr = <<>>
        /\ ~summary.printed
        /\ ReportUntouched

\* a run over an empty api_site has ended, an earlier report still on disk
C8_Witness ==
    /\ cfgFile = "sites"
    /\ Len(apiSite) = 0
    /\ pc = "done"
    /\ reportFile = OldReport

\* C9: with a config that parses, a completed run exits 0 with its report
\* written however many probes failed; while failures are being recorded the
\* run goes on and no worker stops while entries are queued; a non-zero exit
\* comes only from an exception thrown in a worker, never from a failed probe.
C9_FailuresNotFatal ==
    /\ (pc = "done" /\ NumEndpoints >= 1) =>
          /\ exitCode = 0
          /\ reportWrites = 1
          /\ reportFile.results = results
          /\ Len(results) = NumEndpoints
    /\ (pc = "await" /\ Threw = {}) =>
          /\ exitCode = -1
          /\ Len(queue) > 0 => \A w \in Workers : wpc[w] = "fetch"
    /\ (Parsed /\ exitCode \notin {-1, 0}) =>
          \E w \in Threw : wcur[w].site.null

\* a completed run with exit status 0 in which four or more probes failed, by
\* HTTP status, by network error and by timeout, and others succeeded
C9_Witness ==
    /\ pc = "done"
    /\ exitCode = 0
    /\ Len(results) > 8
    /\ Cardinality(ResultsWith({"fail"})) >= 4
    /\ \E j \in ResultsWith({"fail"}) : results[j].detail = "HTTP 404"
    /\ ResultsWith({"pass"}) # {}
    /\ reportFile.results = results

\* C10: with config.json absent or unparsable the process exits non-zero
\* before any work: no request, no result, no stdout line, no report write.
C10_ConfigFatal ==
    ~Parsed =>
        /\ pc \in {"init", "exit"}
        /\ pc = "exit" => exitCode # 0 /\ exitCode # -1 /\ Len(stderr) = 1
        /\ requests = <<>>
        /\ results = <<>>
        /\ \A w \in Workers : wpc[w] = "idle"
        /\ stdout = <<>>
        /\ ReportUntouched

\* the process has exited on an unparsable config.json, an earlier report on disk
C10_Witness ==
    /\ cfgFile = "invalid"
    /\ pc = "exit"
    /\ exitCode = 1
    /\ reportFile = OldReport

\* the URL harness has built its URL
Built == builtUrl # <<>>
NonSpace(s) == {i \in 1..Len(s) : s[i] # " "}
Min(S) == CHOOSE x \in S : \A y \in S : x <= y
Max(S) == CHOOSE x \in S : \A y \in S : x >= y
\* s from its first to its last character that is not whitespace
Stripped(s) == IF NonSpace(s) = {} THEN <<>> ELSE SubSeq(s, Min(NonSpace(s)), Max(NonSpace(s)))
QuestionMarks(s) == Cardinality({i \in 1..Len(s) : s[i] = "?"})

\* C11: buildTestUrl(b) is t, then "&" if t contains "?" and "?" otherwise,
\* then the query, where t is b without leading and trailing whitespace; so
\* buildTestUrl(b) = buildTestUrl(t), and the result has one more "?" than t
\* when t has none and as many as t otherwise.
C11_BuildTestUrl ==
    Built =>
        LET t == Stripped(base)
            sep == IF QuestionMarks(t) > 0 THEN "&" ELSE "?"
        IN  /\ builtUrl = t \o <<sep>> \o <<"ac=videolist&wd=test&pg=1">>
            /\ builtUrl = buildTestUrl(t)
            /\ QuestionMarks(t) = 0 => QuestionMarks(builtUrl) = 1
            /\ QuestionMarks(t) > 0 => QuestionMarks(builtUrl) = QuestionMarks(t)

\* a built URL for a base with whitespace on both sides and a "?" inside
C11_Witness ==
    /\ Built
    /\ Len(base) >= 4
    /\ base[1] = " " /\ base[Len(base)] = " "
    /\ QuestionMarks(base) = 1
    /\ builtUrl[Len(builtUrl) - 1] = "&"

\* C12: the report is written at most once, by a run that is over: the queue
\* is empty, nothing is in flight, every worker has returned, the document
\* holds all N results, and results never differs from it afterwards.
C12_ReportAtEnd ==
    /\ reportWrites <= 1
    /\ reportWrites = 1 =>
          /\ pc = "done"
          /\ queue = <<>>
          /\ InFlight = 0
          /\ \A w \in Workers : wpc[w] = "returned"
          /\ reportFile = [exists |-> TRUE, when |-> "this run", results |-> results]
          /\ Len(reportFile.results) = NumEndpoints
          /\ \A i \in 1..NumEndpoints :
                \E j \in 1..Len(reportFile.results) :
                    reportFile.results[j].key = entries[i].key
    /\ reportFile.when = "this run" => reportWrites = 1

\* a report written over an earlier one by a run of more endpoints than
\* workers whose probes completed out of order
C12_Witness ==
    /\ reportWrites = 1
    /\ Len(reportFile.results) > 8
    /\ inversions = 2
    /\ reportFile.results[1].key # "k1"

\* C13: every run over N >= 1 endpoints eventually has an empty queue, all 8
\* workers returned and the report written. No step leaves pc = "exit" or
\* pc = "done", so a run that has stopped there stays as it is for ever: the
\* claim requires every stopped run over N >= 1 endpoints to be in that state.
C13_AsStated ==
    (NumEndpoints >= 1 /\ pc \in {"exit", "done"}) =>
        (pc = "done" /\ queue = <<>> /\ AllReturned /\ reportWrites = 1)

\* what the network did with the probe behind results[j]
NetOfResult(j) == NetOf(results[j].key)
\* the status line and headers of a response reached the probe
ResponseObtained(j) ==
    /\ ValidUrl(results[j].testUrl)
    /\ \/ NetOfResult(j).kind = "bodyfail"
       \/ NetOfResult(j).kind = "response" /\ NetOfResult(j).lat < TIMEOUT_MS
\* the response and the whole of its body reached the probe before the timer
BodyRead(j) ==
    /\ ValidUrl(results[j].testUrl)
    /\ NetOfResult(j).kind = "response"
    /\ NetOfResult(j).lat < TIMEOUT_MS
\* a worker stops on an exception only at a null descriptor, never on a probe
ProbeNeverRaises == \A w \in Threw : wcur[w].site.null

\* C14 as stated: a recorded result has status 0 exactly when its probe failed
\* before a response was obtained, then with verdict `fail`; a `fail` with a
\* non-zero status is a non-2xx response.
C14_AsStated ==
    /\ ProbeNeverRaises
    /\ \A j \in 1..Len(results) :
          /\ results[j].status = 0 <=> ~ResponseObtained(j)
          /\ results[j].status = 0 => results[j].verdict = "fail"
          /\ (results[j].verdict = "fail" /\ results[j].status # 0) =>
                results[j].status \notin 200..299

\* C14: the probe never raises; a recorded result has status 0 exactly when its
\* probe did not get a response with its body read in full (bad URL, network
\* error, abort by the timer, failure while reading the body of a response that
\* had arrived), then with verdict `fail` and the error as detail; a `fail`
\* with a non-zero status is the non-2xx status of a response that was read.
C14_StatusZeroIffNoBody ==
    /\ ProbeNeverRaises
    /\ \A j \in 1..Len(results) :
          /\ results[j].status = 0 <=> ~BodyRead(j)
          /\ results[j].status = 0 =>
                /\ results[j].verdict = "fail"
                /\ results[j].detail \in {"Failed to parse URL", "fetch failed",
                                          "This operation was aborted", "terminated"}
          /\ (results[j].verdict = "fail" /\ results[j].status # 0) =>
                /\ BodyRead(j)
                /\ results[j].status = NetOfResult(j).status
                /\ results[j].status \notin 200..299

\* results hold a probe whose response arrived and whose body could not be
\* read, recorded with status 0, next to a refused one and a non-2xx response
C14_Witness ==
    /\ \E j \in 1..Len(results) :
          /\ NetOfResult(j).kind = "bodyfail"
          /\ results[j].status = 0
          /\ results[j].verdict = "fail"
    /\ \E j \in 1..Len(results) : NetOfResult(j).kind = "refused"
    /\ \E j \in 1..Len(results) : results[j].verdict = "fail" /\ results[j].status = 500

\* C15: once a worker has raised, the run can only go to the top-level
\* handler: it never prints the summary or writes the report, whatever results
\* were collected, and its only step logs the error and exits with status 1.
C15_ExceptionIsFatal ==
    Threw # {} =>
        /\ pc \in {"await", "exit"}
        /\ ReportUntouched
        /\ ~summary.printed
        /\ pc = "await" => ENABLED MainCatch /\ ~ENABLED MainFinish
        /\ pc = "exit" =>
              /\ exitCode = 1
              /\ stderr # <<>>
              /\ stderr[Len(stderr)] = "Unexpected error:"

\* a run stopped by the null descriptor met after eight results were collected,
\* the report of an earlier run left as it was
C15_Witness ==
    /\ pc = "exit"
    /\ Threw # {}
    /\ \E w \in Threw : wcur[w].site.null
    /\ Len(results) >= 8
    /\ reportFile = OldReport

\* C16: results changes only by one result being added at its end, and that
\* result is the one of the probe whose outcome has just returned to its
\* worker: results is in completion order.
C16_CompletionOrder ==
    [][results' # results =>
          /\ Len(results') = Len(results) + 1
          /\ SubSeq(results', 1, Len(results)) = results
          /\ \E w \in Workers :
                /\ wpc[w] = "fetch"
                /\ results'[Len(results')].key = wcur[w].key
                /\ wpc'[w] # "fetch" \/ wcur'[w] # wcur[w]]_vars

\* a completed run over two endpoints whose results are in the reverse of the
\* configuration order
C16_Witness ==
    /\ pc = "done"
    /\ NumEndpoints = 2
    /\ entries[1].key = "k1" /\ entries[2].key = "k2"
    /\ results[1].key = "k2" /\ results[2].key = "k1"
    /\ reportFile.results = results

IsProgress(l) == l.text = "progress"
ProgressLines == SelectSeq(stdout, IsProgress)

\* C17: whenever control can pass between workers, tested equals the number of
\* results and of progress lines printed, the k-th progress line carries index
\* k and reports the k-th result, and a completed run has printed 1..N.
C17_OneLinePerProbe ==
    /\ tested = Len(results)
    /\ Len(ProgressLines) = Len(results)
    /\ \A k \in 1..Len(ProgressLines) :
          /\ ProgressLines[k].idx = k
          /\ ProgressLines[k].key = results[k].key
          /\ ProgressLines[k].verdict = results[k].verdict
    /\ AllReturned =>
          /\ Len(ProgressLines) = NumEndpoints
          /\ {ProgressLines[k].idx : k \in 1..Len(ProgressLines)} = 1..NumEndpoints

\* nine progress lines numbered to 9 of a run whose probes completed out of
\* configuration order, main not yet resumed
C17_Witness ==
    /\ pc = "await"
    /\ tested = 9
    /\ Len(ProgressLines) = 9
    /\ ProgressLines[9].idx = 9
    /\ ProgressLines[9].key # "k9"
    /\ ProgressLines[1].key # "k1"

\* the verdicts counted under PASS, MAYBE, XML/HTML, UNKNOWN/TEXT, FAIL/EMPTY
Buckets == <<{"pass"}, {"ok_maybe"}, {"xml_or_html"}, {"unknown", "text"},
             {"fail", "empty"}>>
BucketsOf(verdict) == {b \in 1..Len(Buckets) : verdict \in Buckets[b]}

\* C18: every result's verdict lies in exactly one of the five buckets, the
\* five printed counts are the sizes of the buckets, and they sum to the
\* number of results.
C18_BucketsPartition ==
    /\ \A j \in 1..Len(results) : Cardinality(BucketsOf(results[j].verdict)) = 1
    /\ summary.printed =>
          /\ summary.pass = Cardinality(ResultsWith(Buckets[1]))
          /\ summary.maybe = Cardinality(ResultsWith(Buckets[2]))
          /\ summary.xml = Cardinality(ResultsWith(Buckets[3]))
          /\ summary.unknown = Cardinality(ResultsWith(Buckets[4]))
          /\ summary.fail = Cardinality(ResultsWith(Buckets[5]))
          /\ summary.pass + summary.maybe + summary.xml + summary.unknown + summary.fail
                = Len(results)

\* a printed summary over nine results with both verdicts of each two-verdict
\* bucket among them
C18_Witness ==
    /\ summary.printed
    /\ Len(results) = 9
    /\ ResultsWith({"unknown"}) # {} /\ ResultsWith({"text"}) # {}
    /\ ResultsWith({"fail"}) # {} /\ ResultsWith({"empty"}) # {}
    /\ summary.unknown >= 2 /\ summary.fail >= 2

\* the workers that have a probe in flight
Probing == {w \in Workers : wpc[w] = "fetch"}

\* C19: once the 8 workers have been started, whenever the queue is non-empty
\* all 8 have a probe in flight, the number of probes in flight is
\* min(8, endpoints not yet completed), and a worker has returned only with
\* the queue empty.
C19_AsStated ==
    pc = "await" =>
        /\ queue # <<>> => Probing = Workers
        /\ Cardinality(Probing) = Min({CONCURRENCY, NumEndpoints - Len(results)})
        /\ (\E w \in Workers : wpc[w] = "returned") => queue = <<>>

\* C20: the probes started are, in order, the first configured endpoints (so
\* of two endpoints the one configured first is never started later), the
\* queue holds the rest in order, and the first min(8, N) of them are all
\* started, and no other, before any probe has completed.
C20_Fifo ==
    /\ Len(requests) <= NumEndpoints
    /\ \A i \in 1..Len(requests) : requests[i].key = entries[i].key
    /\ pc = "await" =>
          /\ queue = SubSeq(entries, Len(requests) + 1, NumEndpoints)
          /\ Len(results) = 0 => Len(requests) = Min({CONCURRENCY, NumEndpoints})
          /\ Len(results) >= 1 => Len(requests) >= Min({CONCURRENCY, NumEndpoints})

\* nine endpoints, the eight workers started on the first eight in
\* configuration order, the ninth queued, no probe completed yet
C20_Witness ==
    /\ pc = "await"
    /\ Len(results) = 0
    /\ Threw = {}
    /\ NumEndpoints = 9
    /\ [i \in 1..Len(requests) |-> requests[i].key] = [i \in 1..8 |-> entries[i].key]
    /\ queue = <<entries[9]>>

====
